---- MODULE Spec2Model ----
(***************************************************************************)
(* Model of HTTPClient (src/src/HTTP/Client.cpp): one request per call    *)
(* over a fresh socket, the send/receive loops, the request formatter,     *)
(* the response parser and the persistent cookie jar.                      *)
(*                                                                         *)
(* A std::string is a sequence of byte values (ASCII codes), so that       *)
(* ::tolower, std::atoi, the std::map key order and the "\r\n" split are   *)
(* computed as the code computes them.  A Map (std::map<string,string>) is *)
(* a function from keys to values; iteration is in ascending key order.    *)
(***************************************************************************)
EXTENDS Integers, Sequences, FiniteSets, TLC

\* ------------------------------------------------------------------ bounds
\* Largest number of Request calls made on the client.
MaxRequests == 2
\* Largest byte count the transport accepts in one partial write.
MaxWrite == 2
\* Largest byte count a short (segmented) read delivers.
MaxSegment == 1
\* Largest number of header lines besides content-length, and of body lines,
\* of a generated raw response.
MaxHeaderLines == 2
MaxBodyLines == 2
\* Largest length of a byte string handed directly to Send.
MaxSendLen == 4
\* Largest number of entries of a mapping handed directly to FormatRequest.
MaxPairs == 2
\* Largest number of candidates one getaddrinfo call returns.
MaxCandidates == 2

\* --------------------------------------------------------- string literals
CRLF == <<13, 10>>                                              \* "\r\n"
STR_set_cookie == <<115, 101, 116, 45, 99, 111, 111, 107, 105, 101>>
STR_content_length ==
    <<99, 111, 110, 116, 101, 110, 116, 45, 108, 101, 110, 103, 116, 104>>
STR_cookie_colon == <<99, 111, 111, 107, 105, 101, 58, 32>>   \* "cookie: "
STR_content_length_colon == STR_content_length \o <<58, 32>>
STR_content_type_colon ==                                 \* "content-type: "
    <<99, 111, 110, 116, 101, 110, 116, 45, 116, 121, 112, 101, 58, 32>>
HTTP_VERSION == <<72, 84, 84, 80, 47, 49, 46, 49>>             \* "HTTP/1.1"
STR_host == <<104, 111, 115, 116>>                             \* "host"

\* ---------------------------------------------------- std::string helpers
Min(a, b) == IF a < b THEN a ELSE b

\* s.substr(from-1) / s.substr(from-1, n) with 1-based from
Suffix(s, from) == SubSeq(s, from, Len(s))
Prefix(s, n) == SubSeq(s, 1, n)

\* s.find(c): 1-based index of the first byte c, 0 for npos
Find(s, c) ==
    LET hits == {i \in 1..Len(s) : s[i] = c}
    IN IF hits = {} THEN 0 ELSE CHOOSE i \in hits : \A j \in hits : i <= j

\* s.find(pat): 1-based index of the first occurrence of pat, 0 for npos
FindSeq(s, pat) ==
    LET hits == {i \in 1..(Len(s) - Len(pat) + 1) :
                    /\ pat = <<>> \/ s[i] = pat[1]
                    /\ SubSeq(s, i, i + Len(pat) - 1) = pat}
    IN IF hits = {} THEN 0 ELSE CHOOSE i \in hits : \A j \in hits : i <= j

\* std::transform(..., ::tolower) in the "C" locale
ToLower(s) == [i \in 1..Len(s) |-> IF s[i] \in 65..90 THEN s[i] + 32 ELSE s[i]]

\* s.c_str() read as a C string: the bytes before the first NUL
CStr(s) == IF Find(s, 0) = 0 THEN s ELSE Prefix(s, Find(s, 0) - 1)

IsSpace(c) == c \in {32, 9, 10, 11, 12, 13}
IsDigit(c) == c \in 48..57

\* the longest run of decimal digits at the head of s
RECURSIVE DigitRun(_)
DigitRun(s) ==
    IF s # <<>> /\ IsDigit(s[1]) THEN <<s[1]>> \o DigitRun(Tail(s)) ELSE <<>>

RECURSIVE DigitsValue(_)
DigitsValue(d) ==
    IF d = <<>> THEN 0 ELSE 10 * DigitsValue(Prefix(d, Len(d) - 1)) + (d[Len(d)] - 48)

RECURSIVE SkipSpace(_)
SkipSpace(s) == IF s # <<>> /\ IsSpace(s[1]) THEN SkipSpace(Tail(s)) ELSE s

\* std::atoi: leading white space, an optional sign, then decimal digits
Atoi(s) ==
    LET t == SkipSpace(CStr(s))
        neg == t # <<>> /\ t[1] = 45
        u == IF t # <<>> /\ t[1] \in {43, 45} THEN Tail(t) ELSE t
        v == DigitsValue(DigitRun(u))
    IN IF neg THEN 0 - v ELSE v

\* fmt::format("{}", n) for a non-negative integer
RECURSIVE Dec(_)
Dec(n) == IF n < 10 THEN <<48 + n>> ELSE Dec(n \div 10) \o <<48 + (n % 10)>>

\* lexicographic std::string operator<
RECURSIVE StrLess(_, _)
StrLess(a, b) ==
    IF b = <<>> THEN FALSE
    ELSE IF a = <<>> THEN TRUE
    ELSE IF a[1] # b[1] THEN a[1] < b[1]
    ELSE StrLess(Tail(a), Tail(b))

\* -------------------------------------------------------------- Map helpers
EmptyMap == [k \in {} |-> <<>>]

\* m[k] = v
MapSet(m, k, v) == [x \in DOMAIN m \cup {k} |-> IF x = k THEN v ELSE m[x]]

\* the keys of m in std::map iteration order
RECURSIVE SortedKeys(_)
SortedKeys(ks) ==
    IF ks = {} THEN <<>>
    ELSE LET k == CHOOSE x \in ks : \A y \in ks \ {x} : StrLess(x, y)
         IN <<k>> \o SortedKeys(ks \ {k})

\* Utils::Split(str, delim): the pieces of str between the occurrences of delim
RECURSIVE Split(_, _)
Split(str, delim) ==
    LET pos == FindSeq(str, delim)
    IN IF pos = 0 THEN <<str>>
       ELSE <<Prefix(str, pos - 1)>> \o Split(Suffix(str, pos + Len(delim)), delim)

RECURSIVE Join(_, _)
Join(ls, delim) ==
    IF ls = <<>> THEN <<>>
    ELSE IF Len(ls) = 1 THEN ls[1]
    ELSE ls[1] \o delim \o Join(Tail(ls), delim)

\* ------------------------------------------------------------ error codes
OK == "OK"
SOCKET_CONNECT == "SOCKET_CONNECT"
SOCKET_SEND == "SOCKET_SEND"
SOCKET_RECV == "SOCKET_RECV"
\* sentinels of the socket API
INVALID_SOCKET == 0
SOCKET_ERROR == -1
\* sizeof(buffer) - 1 in Receive
RecvCapacity == 255
HOST_ADDRINFO == "HOST_ADDRINFO"
HOST_NORESULT == "HOST_NORESULT"
\* the socket API's family, type and protocol numbers
AF_INET == 2
AF_INET6 == 10
SOCK_STREAM == 1
SOCK_DGRAM == 2
IPPROTO_TCP == 6
IPPROTO_UDP == 17
\* _address{} : the zero-initialised sockaddr of the constructor
ZeroAddress == 0
\* no connect() call made yet by this Request
NoConnect == -1
\* getaddrinfo answering success with an empty list
NoAnswer == [ret |-> 0, result |-> <<>>]

\* ------------------------------------------------------------ FormatRequest
RECURSIVE FormatPairs(_, _, _, _)
\* for (kv : m) out += fmt::format("{}<sep>{}<end>", kv.first, kv.second)
FormatPairs(m, keys, sep, end) ==
    IF keys = <<>> THEN <<>>
    ELSE keys[1] \o sep \o m[keys[1]] \o end \o FormatPairs(m, Tail(keys), sep, end)

\* QueryString without the '&' after the last pair
QueryString_NoTrailingAmp(query_params) ==
    IF DOMAIN query_params # {}
    THEN LET q == FormatPairs(query_params, SortedKeys(DOMAIN query_params), <<61>>, <<38>>)
         IN <<63>> \o Prefix(q, Len(q) - 1)
    ELSE <<>>

\* lines 130-136: "?" and "key=value&" per parameter, or nothing
QueryString(query_params) ==
    IF DOMAIN query_params # {}
    THEN <<63>> \o FormatPairs(query_params, SortedKeys(DOMAIN query_params), <<61>>, <<38>>)
    ELSE <<>>

\* FormatRequest emitting the content-length and content-type lines for an
\* empty body too
FormatRequest_AlwaysDataHeaders(method, path, query_params, data, content_type, headers, cookies) ==
    LET line == method \o <<32>> \o path \o QueryString(query_params)
                    \o <<32>> \o HTTP_VERSION \o CRLF
        hdrs == FormatPairs(headers, SortedKeys(DOMAIN headers), <<58, 32>>, CRLF)
        cks == IF DOMAIN cookies # {}
               THEN STR_cookie_colon
                    \o FormatPairs(cookies, SortedKeys(DOMAIN cookies), <<61>>, <<59>>)
                    \o CRLF
               ELSE <<>>
        dhdrs == IF TRUE
                 THEN STR_content_length_colon \o Dec(Len(data)) \o CRLF
                      \o STR_content_type_colon \o content_type \o CRLF
                 ELSE <<>>
    IN line \o hdrs \o cks \o dhdrs \o CRLF \o (IF Len(data) # 0 THEN data ELSE <<>>)

\* lines 123-169
FormatRequest(method, path, query_params, data, content_type, headers, cookies) ==
    LET line == method \o <<32>> \o path \o QueryString(query_params)
                    \o <<32>> \o HTTP_VERSION \o CRLF
        hdrs == FormatPairs(headers, SortedKeys(DOMAIN headers), <<58, 32>>, CRLF)
        cks == IF DOMAIN cookies # {}
               THEN STR_cookie_colon
                    \o FormatPairs(cookies, SortedKeys(DOMAIN cookies), <<61>>, <<59>>)
                    \o CRLF
               ELSE <<>>
        dhdrs == IF Len(data) # 0
                 THEN STR_content_length_colon \o Dec(Len(data)) \o CRLF
                      \o STR_content_type_colon \o content_type \o CRLF
                 ELSE <<>>
    IN line \o hdrs \o cks \o dhdrs \o CRLF \o (IF Len(data) # 0 THEN data ELSE <<>>)

\* ------------------------------------------------------------ ParseResponse
STATUS == "STATUS"
HEADERS == "HEADERS"
BODY == "BODY"

\* HTTPResponse after Reset(): every field empty
EmptyResponse ==
    [raw |-> <<>>, protover |-> <<>>, code |-> 0, status |-> <<>>,
     headers |-> EmptyMap, cookies |-> EmptyMap, data |-> <<>>]

\* the leading run of non-white-space bytes (operator>> into a std::string)
RECURSIVE Token(_)
Token(s) == IF s # <<>> /\ ~IsSpace(s[1]) THEN <<s[1]>> \o Token(Tail(s)) ELSE <<>>

\* case STATUS: ss >> _protover >> _code >> _status
\* A failed extraction sets failbit and the later ones leave their target alone.
StatusCase(resp, line) ==
    LET s1 == SkipSpace(line)
        tok1 == Token(s1)
        s2 == SkipSpace(Suffix(s1, Len(tok1) + 1))
        neg == s2 # <<>> /\ s2[1] = 45
        u == IF s2 # <<>> /\ s2[1] \in {43, 45} THEN Tail(s2) ELSE s2
        digs == DigitRun(u)
        val == IF neg THEN 0 - DigitsValue(digs) ELSE DigitsValue(digs)
        s3 == SkipSpace(Suffix(u, Len(digs) + 1))
    IN IF s1 = <<>> THEN resp
       ELSE IF s2 = <<>> THEN [resp EXCEPT !.protover = tok1]
       ELSE IF digs = <<>> THEN [resp EXCEPT !.protover = tok1, !.code = 0]
       ELSE IF s3 = <<>> THEN [resp EXCEPT !.protover = tok1, !.code = val]
       ELSE [resp EXCEPT !.protover = tok1, !.code = val, !.status = Token(s3)]

\* CookieCase without the truncation at ';'
CookieCase_KeepAttributes(resp, val) ==
    LET pos == Find(val, 61)
        cookie_key == Prefix(val, pos - 1)
        cookie_val == Suffix(val, pos + 1)
    IN IF pos # 0
       THEN [resp EXCEPT !.cookies = MapSet(resp.cookies, cookie_key, cookie_val)]
       ELSE resp

\* the set-cookie branch: name before the first '=', value up to the first ';'
CookieCase(resp, val) ==
    LET pos == Find(val, 61)
        cookie_key == Prefix(val, pos - 1)
        rest == Suffix(val, pos + 1)
        semi == Find(rest, 59)
        cookie_val == IF semi # 0 THEN Prefix(rest, semi - 1) ELSE rest
    IN IF pos # 0
       THEN [resp EXCEPT !.cookies = MapSet(resp.cookies, cookie_key, cookie_val)]
       ELSE resp

\* HeadersCase with a line that has no colon ending the header section
HeadersCase_NoColonEndsHeaders(resp, cl, line) ==
    LET pos == Find(line, 58)
        key == ToLower(Prefix(line, pos - 1))
        val == Suffix(line, pos + 2)
    IN IF Len(line) = 0
       THEN [response |-> resp, content_length |-> cl, state |-> BODY, thrown |-> FALSE]
       ELSE IF pos = 0
       THEN [response |-> resp, content_length |-> cl, state |-> BODY, thrown |-> FALSE]
       ELSE IF pos + 1 > Len(line)
       THEN [response |-> resp, content_length |-> cl, state |-> HEADERS, thrown |-> TRUE]
       ELSE IF key # STR_set_cookie
       THEN [response |-> [resp EXCEPT !.headers = MapSet(resp.headers, key, val)],
             content_length |-> IF key = STR_content_length THEN Atoi(val) ELSE cl,
             state |-> HEADERS, thrown |-> FALSE]
       ELSE [response |-> CookieCase(resp, val), content_length |-> cl,
             state |-> HEADERS, thrown |-> FALSE]

\* case HEADERS.  line.substr(pos + 2) throws std::out_of_range when the first
\* colon is the last byte of the line (pos + 2 > size).
HeadersCase(resp, cl, line) ==
    LET pos == Find(line, 58)
        key == ToLower(Prefix(line, pos - 1))
        val == Suffix(line, pos + 2)
    IN IF Len(line) = 0
       THEN [response |-> resp, content_length |-> cl, state |-> BODY, thrown |-> FALSE]
       ELSE IF pos = 0
       THEN [response |-> resp, content_length |-> cl, state |-> HEADERS, thrown |-> FALSE]
       ELSE IF pos + 1 > Len(line)
       THEN [response |-> resp, content_length |-> cl, state |-> HEADERS, thrown |-> TRUE]
       ELSE IF key # STR_set_cookie
       THEN [response |-> [resp EXCEPT !.headers = MapSet(resp.headers, key, val)],
             content_length |-> IF key = STR_content_length THEN Atoi(val) ELSE cl,
             state |-> HEADERS, thrown |-> FALSE]
       ELSE [response |-> CookieCase(resp, val), content_length |-> cl,
             state |-> HEADERS, thrown |-> FALSE]

\* data.length() < content_length, content_length being a size_t that holds the
\* int returned by atoi: a negative int converts to a value of at least 2^63,
\* above every string length.  cl is kept as that int.
SizeLess(len, cl) == cl < 0 \/ len < cl

\* BodyCase without the CRLF re-appended between lines
BodyCase_NoSeparator(resp, cl, line) ==
    [resp EXCEPT !.data = resp.data \o line]

\* case BODY
BodyCase(resp, cl, line) ==
    LET d == resp.data \o line
    IN [resp EXCEPT !.data = IF SizeLess(Len(d), cl) THEN d \o CRLF ELSE d]

\* ------------------------------------------------------------------- state
VARIABLES
    _system_headers,   \* Map, seeded with host by SetupSystemHeaders
    _system_cookies,   \* Map, the persistent cookie jar
    pc,                \* position of the calling thread
    ncalls,            \* Request calls made so far
    args,              \* arguments of the current Request call
    merged_headers,    \* Request local
    merged_cookies,    \* Request local
    request,           \* Request local: the formatted bytes
    sockfd,            \* Request local
    err,               \* Request local / return value of Send and Receive
    result,            \* return value of the last Request, "none" while running
    nsock,             \* sockets created so far by socket()
    openSocks,         \* sockets created and not yet closed
    closeCount,        \* closesocket calls per socket
    buf_idx,           \* Send local
    remaining_bytes,   \* Send local
    wire,              \* bytes the transport accepted, in call order
    offered,           \* bytes the last send() call was offered
    allPositive,       \* every send() of this Send accepted at least 1 byte
    sawPartial,        \* some send() of this Send accepted fewer bytes than offered
    peer,              \* bytes the peer has sent and recv has not yet returned
    nreads,            \* recv() calls of this Receive
    response,          \* HTTPResponse
    lines,             \* ParseResponse local
    idx,               \* ParseResponse: index of the next line of the loop
    state,             \* ParseResponse local
    content_length,    \* ParseResponse local
    steps,             \* history: the calls Request made, in order
    envFail,           \* history: which system call failed in this Request
    jarAtCall,         \* history: the jar when the current Request was called
    prevSet,           \* history: cookies of the previous call's response, if it returned OK
    _address,          \* the resolved address; ZeroAddress until ResolveHost stores one
    dns,               \* environment: what getaddrinfo answers for the client's host
    resolveRet,        \* return value of the last ResolveHost, "none" before the first
    candidates,        \* history: the answer getaddrinfo gave the last ResolveHost
    addrBefore,        \* history: _address when the last ResolveHost was called
    connectAddr,       \* history: the address this Request handed to connect()
    zeroParity,        \* history: parity of the send() calls of this Send that accepted 0 bytes
    chunks             \* history: the bytes each recv() of this Receive returned, in call order

vars == <<_system_headers, _system_cookies, pc, ncalls, args, merged_headers,
          merged_cookies, request, sockfd, err, result, nsock, openSocks,
          closeCount, buf_idx, remaining_bytes, wire, offered, allPositive,
          sawPartial, peer, nreads, response, lines, idx, state, content_length,
          steps, envFail, jarAtCall, prevSet, _address, dns, resolveRet,
          candidates, addrBefore, connectAddr, zeroParity, chunks>>

clientVars == <<_system_headers, _system_cookies>>
requestVars == <<ncalls, args, merged_headers, merged_cookies, request, jarAtCall, prevSet,
                 connectAddr>>
resolveVars == <<_address, dns, resolveRet, candidates, addrBefore>>
socketVars == <<nsock, openSocks, closeCount>>
sendVars == <<buf_idx, remaining_bytes, wire, offered, allPositive, sawPartial, zeroParity>>
recvVars == <<peer, nreads, chunks>>
parseVars == <<lines, idx, state, content_length>>

\* ------------------------------------------------------------- environment
\* the host and port the client was constructed with: "h", 80
HostPort == <<104, 58, 56, 48>>                                   \* "h:80"

NoArgs ==
    [method |-> <<>>, path |-> <<>>, query_params |-> EmptyMap, data |-> <<>>,
     content_type |-> <<>>, user_headers |-> EmptyMap, user_cookies |-> EmptyMap]

\* the arguments callers pass to Request
RequestInputs ==
    { [method |-> <<71, 69, 84>>, path |-> <<47, 112>>,           \* GET /p
       query_params |-> EmptyMap, data |-> i[1],
       content_type |-> <<116, 47, 112>>,                        \* t/p
       user_headers |-> i[2], user_cookies |-> i[3]] :
         i \in { <<(<<>>), EmptyMap, EmptyMap>>,
                 <<(<<100>>), (<<120>> :> <<49>>), (<<107>> :> <<113>>)>>,
                 <<(<<>>), (STR_host :> <<101, 118, 105, 108>>), (<<115>> :> <<117>>)>> } }

\* the raw responses the peer answers a Request with
L_200 == <<72, 84, 84, 80, 47, 49, 46, 49, 32, 50, 48, 48, 32, 79, 75>>
L_404 == <<72, 84, 84, 80, 47, 49, 46, 49, 32, 52, 48, 52, 32, 78, 111, 116,
           32, 70, 111, 117, 110, 100>>
L_cl3 == STR_content_length_colon \o <<51>>                 \* content-length: 3
L_CL2 == <<67, 111, 110, 116, 101, 110, 116, 45, 76, 101, 110, 103, 116, 104,
           58, 32, 50>>                                    \* Content-Length: 2
L_x1 == <<120, 58, 32, 49>>                                 \* x: 1
L_X2 == <<88, 58, 32, 50>>                                  \* X: 2
L_sv == <<115, 101, 116, 45, 99, 111, 111, 107, 105, 101, 58, 32, 115, 61, 118,
          59, 32, 80, 97, 116, 104, 61, 47>>          \* set-cookie: s=v; Path=/
L_Sw == <<83, 101, 116, 45, 67, 111, 111, 107, 105, 101, 58, 32, 115, 61, 119>>
                                                            \* Set-Cookie: s=w
L_tw == <<115, 101, 116, 45, 99, 111, 111, 107, 105, 101, 58, 32, 116, 61, 119>>
                                                            \* set-cookie: t=w
L_xc == <<120, 58>>                                         \* x:
L_nocolon == <<110, 111>>                                   \* no
L_flag == <<115, 101, 116, 45, 99, 111, 111, 107, 105, 101, 58, 32, 102>>
                                                            \* set-cookie: f
L_ab == <<97, 98>>                                          \* ab

Responses ==
    { Join(<<L_200, L_sv, <<>>, <<>>>>, CRLF),
      Join(<<L_200, L_tw, L_CL2, <<>>, L_ab>>, CRLF),
      Join(<<L_200, L_Sw, <<>>, <<>>>>, CRLF),
      Join(<<L_200, L_xc, <<>>, <<>>>>, CRLF),
      Join(<<L_404, <<>>, <<>>>>, CRLF) }

\* what one send() call returns when offered n bytes
SendResults(n) == {SOCKET_ERROR} \cup (0..Min(n, MaxWrite)) \cup {n}

\* how many bytes one recv() call returns when p is pending: everything that
\* fits the buffer, or a shorter segment; 0 once the peer has nothing more
RecvResults(p) ==
    IF Len(p) = 0 THEN {0}
    ELSE {Min(Len(p), RecvCapacity)}
         \cup {k \in 1..MaxSegment : k < Min(Len(p), RecvCapacity)}

\* ----------------------------------------------------------------- actions
\* HTTPClient::SetupSystemHeaders, called by the constructor
SetupSystemHeaders == (STR_host :> HostPort)

Init ==
    /\ _system_headers = SetupSystemHeaders
    /\ _system_cookies = EmptyMap
    /\ pc = "Idle"
    /\ ncalls = 0
    /\ args = NoArgs
    /\ merged_headers = EmptyMap
    /\ merged_cookies = EmptyMap
    /\ request = <<>>
    /\ sockfd = INVALID_SOCKET
    /\ err = OK
    /\ result = "none"
    /\ nsock = 0
    /\ openSocks = {}
    /\ closeCount = [s \in {} |-> 0]
    /\ buf_idx = 0
    /\ remaining_bytes = 0
    /\ wire = <<>>
    /\ offered = <<>>
    /\ allPositive = TRUE
    /\ sawPartial = FALSE
    /\ peer = <<>>
    /\ nreads = 0
    /\ chunks = <<>>
    /\ response = EmptyResponse
    /\ lines = <<>>
    /\ idx = 1
    /\ state = STATUS
    /\ content_length = 0
    /\ steps = <<>>
    /\ envFail = "none"
    /\ jarAtCall = EmptyMap
    /\ prevSet = EmptyMap
    /\ _address = ZeroAddress
    /\ dns = NoAnswer
    /\ resolveRet = "none"
    /\ candidates = NoAnswer
    /\ addrBefore = ZeroAddress
    /\ connectAddr = NoConnect
    /\ zeroParity = 0

\* m.insert(src.begin(), src.end()): a key already in m keeps m's value
MapInsert(m, src) ==
    [k \in DOMAIN m \cup DOMAIN src |-> IF k \in DOMAIN m THEN m[k] ELSE src[k]]

\* MapAssign with the assignment replaced by an insert that keeps old entries
MapAssign_KeepOld(m, src) ==
    [k \in DOMAIN m \cup DOMAIN src |-> IF k \in DOMAIN m THEN m[k] ELSE src[k]]

\* for (kv : src) m[kv.first] = kv.second
MapAssign(m, src) ==
    [k \in DOMAIN m \cup DOMAIN src |-> IF k \in DOMAIN src THEN src[k] ELSE m[k]]

\* Request, lines 85-90: merge the persistent maps into the caller's and format
RequestCall ==
    /\ pc \in {"Idle", "Done", "Thrown"}
    /\ ncalls < MaxRequests
    /\ \E a \in RequestInputs :
         LET mh == MapInsert(a.user_headers, _system_headers)
             mc == MapInsert(a.user_cookies, _system_cookies)
         IN /\ args' = a
            /\ merged_headers' = mh
            /\ merged_cookies' = mc
            /\ request' = FormatRequest(a.method, a.path, a.query_params, a.data,
                                        a.content_type, mh, mc)
    /\ ncalls' = ncalls + 1
    /\ pc' = "Connect"
    /\ result' = "none"
    /\ sockfd' = INVALID_SOCKET
    /\ err' = OK
    /\ response' = EmptyResponse
    /\ steps' = <<>>
    /\ envFail' = "none"
    /\ jarAtCall' = _system_cookies
    /\ prevSet' = IF result = OK THEN response.cookies ELSE EmptyMap
    /\ connectAddr' = NoConnect
    /\ buf_idx' = 0
    /\ remaining_bytes' = 0
    /\ wire' = <<>>
    /\ offered' = <<>>
    /\ allPositive' = TRUE
    /\ sawPartial' = FALSE
    /\ zeroParity' = 0
    /\ peer' = <<>>
    /\ nreads' = 0
    /\ chunks' = <<>>
    /\ lines' = <<>>
    /\ idx' = 1
    /\ state' = STATUS
    /\ content_length' = 0
    /\ UNCHANGED <<clientVars, resolveVars, socketVars>>

\* Disconnect(fd) / closesocket(fd)
Closed(fd) == [closeCount EXCEPT ![fd] = @ + 1]

\* Request, lines 92-98, with Connect (lines 14-28): socket() may fail, connect()
\* may fail (the socket is then closed), else Send is entered (lines 37-38)
Connect ==
    /\ pc = "Connect"
    /\ \E outcome \in {"nosocket", "refused", "connected"} :
         LET fd == nsock + 1 IN
         \/ /\ outcome = "nosocket"
            /\ sockfd' = INVALID_SOCKET
            /\ result' = SOCKET_CONNECT
            /\ envFail' = "connect"
            /\ steps' = Append(steps, "Open")
            /\ pc' = "Done"
            /\ UNCHANGED <<socketVars, sendVars, connectAddr>>
         \/ /\ outcome = "refused"
            /\ nsock' = fd
            /\ openSocks' = openSocks
            /\ closeCount' = (fd :> 1) @@ closeCount
            /\ sockfd' = INVALID_SOCKET
            /\ result' = SOCKET_CONNECT
            /\ envFail' = "connect"
            /\ steps' = Append(steps, "Open")
            /\ pc' = "Done"
            /\ connectAddr' = _address
            /\ UNCHANGED sendVars
         \/ /\ outcome = "connected"
            /\ nsock' = fd
            /\ openSocks' = openSocks \cup {fd}
            /\ closeCount' = (fd :> 0) @@ closeCount
            /\ sockfd' = fd
            /\ steps' = steps \o <<"Open", "Send">>
            /\ buf_idx' = 0
            /\ remaining_bytes' = Len(request)
            /\ UNCHANGED <<wire, offered, allPositive, sawPartial, zeroParity>>
            /\ pc' = "Send"
            /\ connectAddr' = _address
            /\ UNCHANGED <<result, envFail>>
    /\ UNCHANGED <<clientVars, resolveVars, ncalls, args, merged_headers, merged_cookies, request,
                   jarAtCall, prevSet, err, recvVars, response, parseVars>>

\* SendWrite without the advance of buf_idx
SendWrite_NoAdvance ==
    /\ pc = "Send"
    /\ remaining_bytes # 0
    /\ \E sent_bytes \in SendResults(remaining_bytes) :
         /\ offered' = SubSeq(request, buf_idx + 1, buf_idx + remaining_bytes)
         /\ IF sent_bytes = SOCKET_ERROR
            THEN /\ err' = SOCKET_SEND
                 /\ envFail' = "send"
                 /\ pc' = "SendRet"
                 /\ UNCHANGED <<buf_idx, remaining_bytes, wire, allPositive, sawPartial,
                                zeroParity>>
            ELSE /\ wire' = wire \o SubSeq(request, buf_idx + 1, buf_idx + sent_bytes)
                 /\ buf_idx' = buf_idx
                 /\ remaining_bytes' = remaining_bytes - sent_bytes
                 /\ allPositive' = (allPositive /\ sent_bytes >= 1)
                 /\ sawPartial' = (sawPartial \/ sent_bytes < remaining_bytes)
                 /\ zeroParity' = IF sent_bytes = 0 THEN 1 - zeroParity ELSE zeroParity
                 /\ UNCHANGED <<err, envFail, pc>>
    /\ UNCHANGED <<clientVars, resolveVars, requestVars, sockfd, result, socketVars, recvVars,
                   response, parseVars, steps>>

\* Send, lines 41-49: one iteration of the write loop
SendWrite ==
    /\ pc = "Send"
    /\ remaining_bytes # 0
    /\ \E sent_bytes \in SendResults(remaining_bytes) :
         /\ offered' = SubSeq(request, buf_idx + 1, buf_idx + remaining_bytes)
         /\ IF sent_bytes = SOCKET_ERROR
            THEN /\ err' = SOCKET_SEND
                 /\ envFail' = "send"
                 /\ pc' = "SendRet"
                 /\ UNCHANGED <<buf_idx, remaining_bytes, wire, allPositive, sawPartial,
                                zeroParity>>
            ELSE /\ wire' = wire \o SubSeq(request, buf_idx + 1, buf_idx + sent_bytes)
                 /\ buf_idx' = buf_idx + sent_bytes
                 /\ remaining_bytes' = remaining_bytes - sent_bytes
                 /\ allPositive' = (allPositive /\ sent_bytes >= 1)
                 /\ sawPartial' = (sawPartial \/ sent_bytes < remaining_bytes)
                 /\ zeroParity' = IF sent_bytes = 0 THEN 1 - zeroParity ELSE zeroParity
                 /\ UNCHANGED <<err, envFail, pc>>
    /\ UNCHANGED <<clientVars, resolveVars, requestVars, sockfd, result, socketVars, recvVars,
                   response, parseVars, steps>>

\* Send, lines 41 and 51: the loop ends when nothing remains
SendDone ==
    /\ pc = "Send"
    /\ remaining_bytes = 0
    /\ err' = OK
    /\ pc' = "SendRet"
    /\ UNCHANGED <<clientVars, resolveVars, requestVars, sockfd, result, socketVars, sendVars,
                   recvVars, response, parseVars, steps, envFail>>

\* AfterSend without the check of Send's return value
AfterSend_NoCheck ==
    /\ pc = "SendRet"
    /\ \E r \in Responses : peer' = r
    /\ nreads' = 0
    /\ chunks' = <<>>
    /\ response' = EmptyResponse
    /\ steps' = Append(steps, "Receive")
    /\ pc' = "Recv"
    /\ UNCHANGED <<openSocks, closeCount, result>>
    /\ UNCHANGED <<clientVars, resolveVars, requestVars, sockfd, err, nsock, sendVars, parseVars,
                   envFail>>

\* Request, lines 99-105: a failed Send closes the socket and returns its error,
\* else Receive is entered (line 59: response.Reset()) and the peer answers
AfterSend ==
    /\ pc = "SendRet"
    /\ IF err # OK
       THEN /\ openSocks' = openSocks \ {sockfd}
            /\ closeCount' = Closed(sockfd)
            /\ result' = err
            /\ pc' = "Done"
            /\ UNCHANGED <<peer, nreads, chunks, response, steps>>
       ELSE /\ \E r \in Responses : peer' = r
            /\ nreads' = 0
            /\ chunks' = <<>>
            /\ response' = EmptyResponse
            /\ steps' = Append(steps, "Receive")
            /\ pc' = "Recv"
            /\ UNCHANGED <<openSocks, closeCount, result>>
    /\ UNCHANGED <<clientVars, resolveVars, requestVars, sockfd, err, nsock, sendVars, parseVars,
                   envFail>>

\* RecvRead with the loop left only by a read that returns no bytes
RecvRead_UntilEmpty ==
    /\ pc = "Recv"
    /\ nreads' = nreads + 1
    /\ \/ /\ err' = SOCKET_RECV
          /\ envFail' = "recv"
          /\ pc' = "RecvRet"
          /\ UNCHANGED <<peer, chunks, response, parseVars>>
       \/ \E recv_bytes \in RecvResults(peer) :
            LET raw == response.raw \o CStr(Prefix(peer, recv_bytes)) IN
            /\ peer' = Suffix(peer, recv_bytes + 1)
            /\ chunks' = Append(chunks, Prefix(peer, recv_bytes))
            /\ response' = [response EXCEPT !.raw = raw]
            /\ IF recv_bytes = 0
               THEN /\ lines' = Split(raw, CRLF)
                    /\ idx' = 1
                    /\ state' = STATUS
                    /\ content_length' = 0
                    /\ pc' = "Parse"
               ELSE UNCHANGED <<parseVars, pc>>
            /\ UNCHANGED <<err, envFail>>
    /\ UNCHANGED <<clientVars, resolveVars, requestVars, sockfd, result, socketVars, sendVars, steps>>

\* Receive, lines 60-74: one recv(); the chunk is NUL-terminated and appended as
\* a C string; a read shorter than the buffer ends the loop and enters
\* ParseResponse (lines 179-181)
RecvRead ==
    /\ pc = "Recv"
    /\ nreads' = nreads + 1
    /\ \/ /\ err' = SOCKET_RECV
          /\ envFail' = "recv"
          /\ pc' = "RecvRet"
          /\ UNCHANGED <<peer, chunks, response, parseVars>>
       \/ \E recv_bytes \in RecvResults(peer) :
            LET raw == response.raw \o CStr(Prefix(peer, recv_bytes)) IN
            /\ peer' = Suffix(peer, recv_bytes + 1)
            /\ chunks' = Append(chunks, Prefix(peer, recv_bytes))
            /\ response' = [response EXCEPT !.raw = raw]
            /\ IF recv_bytes # RecvCapacity
               THEN /\ lines' = Split(raw, CRLF)
                    /\ idx' = 1
                    /\ state' = STATUS
                    /\ content_length' = 0
                    /\ pc' = "Parse"
               ELSE UNCHANGED <<parseVars, pc>>
            /\ UNCHANGED <<err, envFail>>
    /\ UNCHANGED <<clientVars, resolveVars, requestVars, sockfd, result, socketVars, sendVars, steps>>

\* ParseResponse, lines 183-237: one iteration of the loop over the lines.  An
\* exception thrown by substr leaves ParseResponse, Receive and Request.
ParseLine ==
    /\ pc = "Parse"
    /\ idx <= Len(lines)
    /\ LET line == lines[idx]
           h == HeadersCase(response, content_length, line)
       IN CASE state = STATUS ->
                 /\ response' = StatusCase(response, line)
                 /\ state' = HEADERS
                 /\ idx' = idx + 1
                 /\ UNCHANGED <<content_length, pc>>
            [] state = HEADERS /\ h.thrown ->
                 /\ pc' = "Thrown"
                 /\ UNCHANGED <<response, state, idx, content_length>>
            [] state = HEADERS /\ ~h.thrown ->
                 /\ response' = h.response
                 /\ content_length' = h.content_length
                 /\ state' = h.state
                 /\ idx' = idx + 1
                 /\ UNCHANGED pc
            [] state = BODY ->
                 /\ response' = BodyCase(response, content_length, line)
                 /\ idx' = idx + 1
                 /\ UNCHANGED <<state, content_length, pc>>
    /\ UNCHANGED <<clientVars, resolveVars, requestVars, sockfd, err, result, socketVars, sendVars,
                   recvVars, lines, steps, envFail>>

\* ParseResponse, line 239, returned through Receive, line 74
ParseReturn ==
    /\ pc = "Parse"
    /\ idx > Len(lines)
    /\ err' = OK
    /\ pc' = "RecvRet"
    /\ UNCHANGED <<clientVars, resolveVars, requestVars, sockfd, result, socketVars, sendVars,
                   recvVars, response, parseVars, steps, envFail>>

\* Request, lines 106-120: a failed Receive closes the socket and returns its
\* error, else the response's cookies overwrite the jar and the socket is closed
AfterReceive ==
    /\ pc = "RecvRet"
    /\ IF err # OK
       THEN UNCHANGED _system_cookies
       ELSE _system_cookies' = MapAssign(_system_cookies, response.cookies)
    /\ openSocks' = openSocks \ {sockfd}
    /\ closeCount' = Closed(sockfd)
    /\ result' = err
    /\ pc' = "Done"
    /\ UNCHANGED <<_system_headers, resolveVars, requestVars, sockfd, err, nsock, sendVars, recvVars,
                   response, parseVars, steps, envFail>>

Next ==
    \/ RequestCall
    \/ Connect
    \/ SendWrite
    \/ SendDone
    \/ AfterSend
    \/ RecvRead
    \/ ParseLine
    \/ ParseReturn
    \/ AfterReceive

Spec == Init /\ [][Next]_vars

\* ------------------------------------------------- Send on its own (SpecSend)
\* the byte strings handed to Send
Seqs(S, n) == UNION {[1..k -> S] : k \in 0..n}

InitSend ==
    /\ _system_headers = SetupSystemHeaders
    /\ _system_cookies = EmptyMap
    /\ pc = "Send"
    /\ ncalls = 0
    /\ args = NoArgs
    /\ merged_headers = EmptyMap
    /\ merged_cookies = EmptyMap
    /\ request \in Seqs({97, 98}, MaxSendLen)
    /\ sockfd = 1
    /\ err = OK
    /\ result = "none"
    /\ nsock = 1
    /\ openSocks = {1}
    /\ closeCount = (1 :> 0)
    /\ buf_idx = 0
    /\ remaining_bytes = Len(request)
    /\ wire = <<>>
    /\ offered = <<>>
    /\ allPositive = TRUE
    /\ sawPartial = FALSE
    /\ peer = <<>>
    /\ nreads = 0
    /\ chunks = <<>>
    /\ response = EmptyResponse
    /\ lines = <<>>
    /\ idx = 1
    /\ state = STATUS
    /\ content_length = 0
    /\ steps = <<>>
    /\ envFail = "none"
    /\ jarAtCall = EmptyMap
    /\ prevSet = EmptyMap
    /\ _address = ZeroAddress
    /\ dns = NoAnswer
    /\ resolveRet = "none"
    /\ candidates = NoAnswer
    /\ addrBefore = ZeroAddress
    /\ connectAddr = NoConnect
    /\ zeroParity = 0

NextSend ==
    \/ SendWrite
    \/ SendDone

SpecSend == InitSend /\ [][NextSend]_vars

\* the calling thread keeps running: an enabled step of the loop is taken
SpecSendLive == SpecSend /\ WF_vars(NextSend)

\* --------------------------------------- ParseResponse on its own (SpecParse)
\* raw inputs: a first line, header-section lines (with at most one
\* content-length line: "content-length: 3" first or "Content-Length: 2" last
\* among them) and, when a blank line follows them, the lines after it (among
\* them one pair of lines shaped like a set-cookie and a header line), joined by
\* CRLF
StatusLines == {L_200, L_404, <<>>}
HeaderLines == {L_x1, L_X2, L_sv, L_Sw, L_xc, L_nocolon, L_flag}
BodyLines == {<<>>, L_ab}

HeaderBlocks ==
    Seqs(HeaderLines, MaxHeaderLines)
    \cup { <<L_cl3>> \o h : h \in Seqs(HeaderLines, MaxHeaderLines) }
    \cup { h \o <<L_CL2>> : h \in Seqs(HeaderLines, MaxHeaderLines) }

RawInputs ==
    { Join(<<s>> \o h \o t, CRLF) :
        s \in StatusLines,
        h \in HeaderBlocks,
        t \in {<<>>} \cup { <<(<<>>)>> \o b : b \in Seqs(BodyLines, MaxBodyLines) }
                   \cup { <<(<<>>), L_Sw, L_X2>> } }

InitParse ==
    /\ _system_headers = SetupSystemHeaders
    /\ _system_cookies = EmptyMap
    /\ pc = "Parse"
    /\ ncalls = 0
    /\ args = NoArgs
    /\ merged_headers = EmptyMap
    /\ merged_cookies = EmptyMap
    /\ request = <<>>
    /\ sockfd = 1
    /\ err = OK
    /\ result = "none"
    /\ nsock = 1
    /\ openSocks = {1}
    /\ closeCount = (1 :> 0)
    /\ buf_idx = 0
    /\ remaining_bytes = 0
    /\ wire = <<>>
    /\ offered = <<>>
    /\ allPositive = TRUE
    /\ sawPartial = FALSE
    /\ peer = <<>>
    /\ nreads = 0
    /\ chunks = <<>>
    /\ \E raw \in RawInputs :
         /\ response = [EmptyResponse EXCEPT !.raw = raw]
         /\ lines = Split(raw, CRLF)
    /\ idx = 1
    /\ state = STATUS
    /\ content_length = 0
    /\ steps = <<>>
    /\ envFail = "none"
    /\ jarAtCall = EmptyMap
    /\ prevSet = EmptyMap
    /\ _address = ZeroAddress
    /\ dns = NoAnswer
    /\ resolveRet = "none"
    /\ candidates = NoAnswer
    /\ addrBefore = ZeroAddress
    /\ connectAddr = NoConnect
    /\ zeroParity = 0

NextParse ==
    \/ ParseLine
    \/ ParseReturn

SpecParse == InitParse /\ [][NextParse]_vars

\* ------------------------------------------ Receive on its own (SpecRecv)
\* n bytes 'a'
Pad(n) == [i \in 1..n |-> 97]
\* "HTTP/1.1 200 OK\r\n\r\n" followed by 'a's up to n bytes in all
Long(n) == L_200 \o CRLF \o CRLF \o Pad(n - Len(L_200) - 4)
\* "HTTP/1.1 200 OK\r\n\r\na\0b": a body with a NUL byte
R_nul == L_200 \o CRLF \o CRLF \o <<97, 0, 98>>

\* what the peer sends in answer: nothing, short responses, and responses of
\* exactly one buffer, one buffer and a byte, and exactly two buffers
RecvInputs ==
    { <<>>,
      Join(<<L_200, L_CL2, <<>>, L_ab>>, CRLF),
      Join(<<L_200, L_sv, <<>>, <<>>>>, CRLF),
      Join(<<L_404, <<>>, <<>>>>, CRLF),
      R_nul,
      Long(RecvCapacity - 1),
      Long(RecvCapacity),
      Long(RecvCapacity + 1),
      Long(2 * RecvCapacity) }

\* an HTTPResponse that an earlier Receive filled
Leftover ==
    [raw |-> L_404, protover |-> HTTP_VERSION, code |-> 404, status |-> <<78, 111, 116>>,
     headers |-> (<<120>> :> <<49>>), cookies |-> (<<115>> :> <<118>>), data |-> L_ab]

InitRecv ==
    /\ _system_headers = SetupSystemHeaders
    /\ _system_cookies = EmptyMap
    /\ pc = "RecvEnter"
    /\ ncalls = 0
    /\ args = NoArgs
    /\ merged_headers = EmptyMap
    /\ merged_cookies = EmptyMap
    /\ request = <<>>
    /\ sockfd = 1
    /\ err = OK
    /\ result = "none"
    /\ nsock = 1
    /\ openSocks = {1}
    /\ closeCount = (1 :> 0)
    /\ buf_idx = 0
    /\ remaining_bytes = 0
    /\ wire = <<>>
    /\ offered = <<>>
    /\ allPositive = TRUE
    /\ sawPartial = FALSE
    /\ peer \in RecvInputs
    /\ nreads = 0
    /\ chunks = <<>>
    /\ response \in {EmptyResponse, Leftover}
    /\ lines = <<>>
    /\ idx = 1
    /\ state = STATUS
    /\ content_length = 0
    /\ steps = <<>>
    /\ envFail = "none"
    /\ jarAtCall = EmptyMap
    /\ prevSet = EmptyMap
    /\ _address = ZeroAddress
    /\ dns = NoAnswer
    /\ resolveRet = "none"
    /\ candidates = NoAnswer
    /\ addrBefore = ZeroAddress
    /\ connectAddr = NoConnect
    /\ zeroParity = 0

\* Receive, lines 56-59: response.Reset() before the first read
ReceiveEnter ==
    /\ pc = "RecvEnter"
    /\ response' = EmptyResponse
    /\ nreads' = 0
    /\ chunks' = <<>>
    /\ pc' = "Recv"
    /\ UNCHANGED <<clientVars, resolveVars, requestVars, sockfd, err, result, socketVars,
                   sendVars, peer, parseVars, steps, envFail>>

NextRecv ==
    \/ ReceiveEnter
    \/ RecvRead
    \/ ParseLine
    \/ ParseReturn

SpecRecv == InitRecv /\ [][NextRecv]_vars

\* ------------------------------------ FormatRequest on its own (SpecFormat)
\* the mappings with at most n entries, keys from K, values from V
Maps(K, V, n) ==
    UNION { [D -> V] : D \in {D \in SUBSET K : Cardinality(D) <= n} }

\* the arguments handed to FormatRequest: methods GET and POST; query
\* parameters over the keys a, b, B; bodies "", "d" and the ten bytes
\* "a\r\n\r\nbcdef"; headers over x, A; cookies over k, j
D_crlf == <<97, 13, 10, 13, 10, 98, 99, 100, 101, 102>>
FormatInputs ==
    { [NoArgs EXCEPT !.method = m, !.path = <<47, 112>>, !.query_params = q,
                     !.data = d, !.content_type = <<116, 47, 112>>] :
        m \in {<<71, 69, 84>>, <<80, 79, 83, 84>>},
        q \in Maps({<<97>>, <<98>>, <<66>>}, {<<49>>, <<50>>}, MaxPairs),
        d \in {<<>>, <<100>>, D_crlf} }
FormatHeaders == Maps({<<120>>, <<65>>, <<121>>}, {<<49>>}, MaxPairs)
FormatCookies == Maps({<<107>>, <<106>>, <<108>>}, {<<113>>}, MaxPairs)

InitFormat ==
    /\ _system_headers = SetupSystemHeaders
    /\ _system_cookies = EmptyMap
    /\ pc = "Format"
    /\ ncalls = 0
    /\ args \in FormatInputs
    /\ merged_headers \in FormatHeaders
    /\ merged_cookies \in FormatCookies
    /\ request = <<>>
    /\ sockfd = INVALID_SOCKET
    /\ err = OK
    /\ result = "none"
    /\ nsock = 0
    /\ openSocks = {}
    /\ closeCount = [s \in {} |-> 0]
    /\ buf_idx = 0
    /\ remaining_bytes = 0
    /\ wire = <<>>
    /\ offered = <<>>
    /\ allPositive = TRUE
    /\ sawPartial = FALSE
    /\ peer = <<>>
    /\ nreads = 0
    /\ chunks = <<>>
    /\ response = EmptyResponse
    /\ lines = <<>>
    /\ idx = 1
    /\ state = STATUS
    /\ content_length = 0
    /\ steps = <<>>
    /\ envFail = "none"
    /\ jarAtCall = EmptyMap
    /\ prevSet = EmptyMap
    /\ _address = ZeroAddress
    /\ dns = NoAnswer
    /\ resolveRet = "none"
    /\ candidates = NoAnswer
    /\ addrBefore = ZeroAddress
    /\ connectAddr = NoConnect
    /\ zeroParity = 0

\* FormatRequest, lines 123-169, called on the arguments and returned
FormatCall ==
    /\ pc = "Format"
    /\ request' = FormatRequest(args.method, args.path, args.query_params, args.data,
                                args.content_type, merged_headers, merged_cookies)
    /\ pc' = "Formatted"
    /\ UNCHANGED <<clientVars, resolveVars, ncalls, args, merged_headers, merged_cookies,
                   jarAtCall, prevSet, connectAddr, sockfd, err, result, socketVars, sendVars, recvVars,
                   response, parseVars, steps, envFail>>

NextFormat == FormatCall

SpecFormat == InitFormat /\ [][NextFormat]_vars

\* ----------------------------------------- ResolveHost on its own (SpecResolve)
\* the candidates getaddrinfo can return: two IPv4/stream/TCP addresses, an
\* IPv6/stream/TCP one and an IPv4/datagram/UDP one
Candidate(f, t, p, a) ==
    [ai_family |-> f, ai_socktype |-> t, ai_protocol |-> p, ai_addr |-> a]
Candidates ==
    { Candidate(AF_INET, SOCK_STREAM, IPPROTO_TCP, 1),
      Candidate(AF_INET, SOCK_STREAM, IPPROTO_TCP, 2),
      Candidate(AF_INET6, SOCK_STREAM, IPPROTO_TCP, 3),
      Candidate(AF_INET, SOCK_DGRAM, IPPROTO_UDP, 4) }

\* what one getaddrinfo call can answer: a failure (ret # 0), or success with
\* a list of candidates
EAI_FAIL == -2
ResolverAnswers ==
    {[ret |-> EAI_FAIL, result |-> <<>>]}
    \cup { [ret |-> 0, result |-> l] : l \in Seqs(Candidates, MaxCandidates) }

\* line 260: the test of the loop over the candidates
Usable(ptr) ==
    /\ ptr.ai_family = AF_INET
    /\ ptr.ai_socktype = SOCK_STREAM
    /\ ptr.ai_protocol = IPPROTO_TCP

\* FirstUsable taking the last usable candidate instead of the first
FirstUsable_Last(l) ==
    LET hits == {i \in 1..Len(l) : Usable(l[i])}
    IN IF hits = {} THEN 0 ELSE CHOOSE i \in hits : \A j \in hits : i >= j

\* lines 259-266: the index of the candidate the loop breaks at, 0 when it
\* runs to the end of the list
FirstUsable(l) ==
    LET hits == {i \in 1..Len(l) : Usable(l[i])}
    IN IF hits = {} THEN 0 ELSE CHOOSE i \in hits : \A j \in hits : i <= j

\* HTTPClient::ResolveHost, lines 242-270, called between Requests
ResolveHost ==
    /\ pc \in {"Idle", "Done", "Thrown"}
    /\ candidates' = dns
    /\ addrBefore' = _address
    /\ IF dns.ret # 0
       THEN /\ resolveRet' = HOST_ADDRINFO
            /\ UNCHANGED _address
       ELSE IF FirstUsable(dns.result) = 0
       THEN /\ resolveRet' = HOST_NORESULT
            /\ UNCHANGED _address
       ELSE /\ _address' = dns.result[FirstUsable(dns.result)].ai_addr
            /\ resolveRet' = OK
    /\ UNCHANGED <<clientVars, dns, requestVars, pc, sockfd, err, result, socketVars,
                   sendVars, recvVars, response, parseVars, steps, envFail>>

\* environment: the records of the client's host change
DnsChange ==
    /\ pc \in {"Idle", "Done", "Thrown"}
    /\ dns' \in ResolverAnswers \ {dns}
    /\ UNCHANGED <<clientVars, _address, resolveRet, candidates, addrBefore, requestVars,
                   pc, sockfd, err, result, socketVars, sendVars, recvVars, response,
                   parseVars, steps, envFail>>

NextResolve ==
    \/ ResolveHost
    \/ DnsChange

SpecResolve == Init /\ [][NextResolve]_vars

\* -------------------------- ResolveHost and Request on one client (SpecClient)
\* the answers of a resolver whose records stay as they are: a failure, a list
\* with no usable candidate, a list with a usable candidate
ClientAnswers ==
    { [ret |-> EAI_FAIL, result |-> <<>>],
      [ret |-> 0, result |-> <<Candidate(AF_INET, SOCK_DGRAM, IPPROTO_UDP, 4)>>],
      [ret |-> 0, result |-> <<Candidate(AF_INET, SOCK_STREAM, IPPROTO_TCP, 1)>>] }

\* environment: which resolver the client's host has
DnsSetup ==
    /\ pc = "Idle"
    /\ ncalls = 0
    /\ resolveRet = "none"
    /\ dns = NoAnswer
    /\ dns' \in ClientAnswers
    /\ UNCHANGED <<clientVars, _address, resolveRet, candidates, addrBefore, requestVars,
                   pc, sockfd, err, result, socketVars, sendVars, recvVars, response,
                   parseVars, steps, envFail>>

NextClient ==
    \/ DnsSetup
    \/ ResolveHost
    \/ Next

SpecClient == Init /\ [][NextClient]_vars

\* ================================================================== claims
\* ------------------------------------------------------------------------
\* C1: whenever Request has exited, every socket it created has been closed
\* exactly once and no socket is open.
C1_SocketsClosedOnExit ==
    pc \in {"Done", "Thrown"} =>
        /\ openSocks = {}
        /\ \A s \in DOMAIN closeCount : closeCount[s] = 1

\* ------------------------------------------------------------------------
\* C2: Request calls Open, Send, Receive in this order and at most once each,
\* and returns the error of the first system call that failed: a failed Open
\* returns SOCKET_CONNECT with no Send, a failed write returns SOCKET_SEND with
\* no Receive, a failed read returns SOCKET_RECV, and OK is returned only when
\* none failed.
C2_FirstFailureReturned ==
    /\ Len(steps) <= 3
    /\ steps = SubSeq(<<"Open", "Send", "Receive">>, 1, Len(steps))
    /\ pc = "Done" =>
        /\ envFail = "connect" => result = SOCKET_CONNECT /\ steps = <<"Open">>
        /\ envFail = "send" => result = SOCKET_SEND /\ steps = <<"Open", "Send">>
        /\ envFail = "recv" =>
               result = SOCKET_RECV /\ steps = <<"Open", "Send", "Receive">>
        /\ envFail = "none" => result = OK /\ steps = <<"Open", "Send", "Receive">>
        /\ result = OK => envFail = "none"

\* a Request returned the send error after part of the bytes had been written
C2_Witness ==
    /\ pc = "Done"
    /\ result = SOCKET_SEND
    /\ envFail = "send"
    /\ buf_idx > 0
    /\ steps = <<"Open", "Send">>

\* ------------------------------------------------------------------------
\* C3: when the previous Request returned OK and its response set cookie n to
\* v, the bytes formatted for this Request have a cookie line with entry n=v,
\* whatever the caller passed.
CookieLineCarries(req, n, v) ==
    \E i \in 1..Len(Split(req, CRLF)) :
        LET l == Split(req, CRLF)[i]
            k == Len(STR_cookie_colon)
        IN /\ Len(l) >= k
           /\ Prefix(l, k) = STR_cookie_colon
           /\ \E j \in 1..Len(Split(Suffix(l, k + 1), <<59>>)) :
                  Split(Suffix(l, k + 1), <<59>>)[j] = n \o <<61>> \o v

C3_JarCookieResent ==
    pc = "Connect" =>
        \A n \in DOMAIN prevSet : CookieLineCarries(request, n, prevSet[n])

\* ------------------------------------------------------------------------
\* C4: the jar changes only in the cookie-update step of a Request whose
\* Receive returned OK; when Request exits with OK every cookie of the parsed
\* response is in the jar with the response's value and every other entry is
\* as it was when Request was called; when it exits otherwise the jar is as
\* it was when Request was called.
C4_Exit ==
    IF result' = OK
    THEN /\ DOMAIN _system_cookies' = DOMAIN jarAtCall \cup DOMAIN response'.cookies
         /\ \A n \in DOMAIN response'.cookies :
                _system_cookies'[n] = response'.cookies[n]
         /\ \A n \in DOMAIN jarAtCall \ DOMAIN response'.cookies :
                _system_cookies'[n] = jarAtCall[n]
    ELSE _system_cookies' = jarAtCall

C4_JarFrame ==
    [][ /\ _system_cookies' # _system_cookies => pc = "RecvRet" /\ err = OK
        /\ (pc \notin {"Done", "Thrown"} /\ pc' \in {"Done", "Thrown"}) => C4_Exit
      ]_vars

\* a successful Request overwrote a jar entry while the caller passed cookies
C4_Witness ==
    /\ pc = "Done"
    /\ result = OK
    /\ args.user_cookies # EmptyMap
    /\ \E n \in DOMAIN jarAtCall \cap DOMAIN response.cookies :
           /\ jarAtCall[n] # response.cookies[n]
           /\ _system_cookies[n] = response.cookies[n]

\* ------------------------------------------------------------------------
\* C5: for a header name that the caller and the system headers both have,
\* the merged mapping handed to the formatter holds the system value.
C5_SystemHeaderWins ==
    pc = "Connect" =>
        \A n \in DOMAIN args.user_headers \cap DOMAIN _system_headers :
            merged_headers[n] = _system_headers[n]

\* ------------------------------------------------------------------------
\* C6: under a transport that accepts at least one byte per write and never
\* fails, Send returns OK and the accepted bytes, in call order, are exactly
\* the request; the accepted bytes are always a prefix of the request, and
\* every write offers the suffix of the request that is still unsent.
C6_PartialWritesDeliverAll ==
    [][ /\ (pc = "Send" /\ remaining_bytes # 0) =>
               offered' = Suffix(request, Len(wire) + 1)
        /\ pc' \in {"Send", "SendRet"} =>
               /\ Len(wire') <= Len(request')
               /\ wire' = Prefix(request', Len(wire'))
        /\ (pc' = "SendRet" /\ allPositive' /\ envFail' # "send") =>
               err' = OK /\ wire' = request'
      ]_vars

\* Send returned OK after at least one write accepted only part of its bytes
C6_Witness ==
    /\ pc = "SendRet"
    /\ err = OK
    /\ allPositive
    /\ sawPartial
    /\ Len(request) >= 3
    /\ wire = request

\* ------------------------------------------------------- raw response layout
\* position of the CRLF that ends the last line before the blank line: the
\* first CRLF followed at once by another CRLF or by the end of the input
BlankPos(raw) ==
    LET hits == {i \in 1..(Len(raw) - 1) :
                    /\ raw[i] = 13
                    /\ raw[i + 1] = 10
                    /\ \/ i + 1 = Len(raw)
                       \/ i + 3 <= Len(raw) /\ SubSeq(raw, i + 2, i + 3) = CRLF}
    IN IF hits = {} THEN 0 ELSE CHOOSE i \in hits : \A j \in hits : i <= j

\* the bytes that follow the blank line
BodyBytes(raw) ==
    IF BlankPos(raw) = 0 \/ BlankPos(raw) + 3 > Len(raw) THEN <<>>
    ELSE Suffix(raw, BlankPos(raw) + 4)

\* the status line and the header-section lines
HeadLines(raw) ==
    LET blank == BlankPos(raw)
    IN IF blank = 0 THEN Split(raw, CRLF)
       ELSE Split(Prefix(raw, blank - 1), CRLF)

HdrName(l) == Prefix(l, Find(l, 58) - 1)
HdrValue(l) == Suffix(l, Find(l, 58) + 2)

\* 'name: value'
WellFormedHeader(l) ==
    /\ Find(l, 58) >= 2
    /\ Len(l) >= Find(l, 58) + 1
    /\ l[Find(l, 58) + 1] = 32

\* 'VERSION DDD TEXT'
WellFormedStatus(l) ==
    LET t == Split(l, <<32>>)
    IN /\ Len(t) >= 3
       /\ t[1] # <<>>
       /\ Len(t[2]) = 3
       /\ \A i \in 1..3 : IsDigit(t[2][i])

StatusCodeOf(l) == DigitsValue(Split(l, <<32>>)[2])

IsContentLength(l) == ToLower(HdrName(l)) = STR_content_length
IsSetCookie(l) == ToLower(HdrName(l)) = STR_set_cookie

WellFormed(raw) ==
    LET h == HeadLines(raw)
    IN /\ BlankPos(raw) # 0
       /\ WellFormedStatus(h[1])
       /\ \A i \in 2..Len(h) : WellFormedHeader(h[i])
       /\ Cardinality({i \in 2..Len(h) : IsContentLength(h[i])}) = 1
       /\ \A i \in 2..Len(h) :
              IsContentLength(h[i]) => HdrValue(h[i]) = Dec(Len(BodyBytes(raw)))

\* ------------------------------------------------------------------------
\* C7 (as stated): for a well-formed raw response ParseResponse yields the
\* status code of the status line, every header line that is not set-cookie
\* under its lower-cased name with its value, and the bytes after the blank
\* line as the body.
C7_EveryHeaderKept ==
    (pc = "RecvRet" /\ WellFormed(response.raw)) =>
        LET h == HeadLines(response.raw)
        IN /\ response.code = StatusCodeOf(h[1])
           /\ \A i \in 2..Len(h) :
                  ~IsSetCookie(h[i]) =>
                      /\ ToLower(HdrName(h[i])) \in DOMAIN response.headers
                      /\ response.headers[ToLower(HdrName(h[i]))] = HdrValue(h[i])
           /\ response.data = BodyBytes(response.raw)

\* C7 (amended): for a well-formed raw response ParseResponse yields the
\* status code of the status line, for every header line that is not
\* set-cookie its lower-cased name mapped to the value of the last header line
\* with that lower-cased name, and the bytes after the blank line as the body.
C7_LastHeaderWins ==
    (pc = "RecvRet" /\ WellFormed(response.raw)) =>
        LET h == HeadLines(response.raw)
        IN /\ response.code = StatusCodeOf(h[1])
           /\ \A i \in 2..Len(h) :
                  (/\ ~IsSetCookie(h[i])
                   /\ \A j \in (i + 1)..Len(h) :
                          ToLower(HdrName(h[j])) # ToLower(HdrName(h[i]))) =>
                      /\ ToLower(HdrName(h[i])) \in DOMAIN response.headers
                      /\ response.headers[ToLower(HdrName(h[i]))] = HdrValue(h[i])
           /\ response.data = BodyBytes(response.raw)

\* a well-formed response whose body holds a CRLF and that has a header besides
\* content-length was parsed to the end
C7_Witness ==
    /\ pc = "RecvRet"
    /\ WellFormed(response.raw)
    /\ Len(HeadLines(response.raw)) >= 3
    /\ FindSeq(BodyBytes(response.raw), CRLF) # 0
    /\ response.data = BodyBytes(response.raw)
    /\ response.code = 200

\* ------------------------------------------------------------------------
\* C8: the headers mapping never has an entry named set-cookie in any letter
\* case, and the cookie mapping holds exactly what the set-cookie lines
\* consumed so far have put into it: each header-section line named set-cookie
\* whose value contains '=' puts the text before the first '=' mapped to the
\* text between that '=' and the first following ';' (or the end of the line),
\* a later put of the same name replacing an earlier one.
CookieNameOf(l) == Prefix(HdrValue(l), Find(HdrValue(l), 61) - 1)
CookieValueOf(l) ==
    LET rest == Suffix(HdrValue(l), Find(HdrValue(l), 61) + 1)
    IN IF Find(rest, 59) = 0 THEN rest ELSE Prefix(rest, Find(rest, 59) - 1)

SetsCookie(l) ==
    /\ Find(l, 58) # 0
    /\ Len(l) >= Find(l, 58) + 1
    /\ IsSetCookie(l)
    /\ Find(HdrValue(l), 61) # 0

C8_SetCookieGoesToCookies ==
    pc \in {"Parse", "RecvRet", "Thrown"} =>
        LET h == HeadLines(response.raw)
            puts == {i \in 2..Min(idx - 1, Len(h)) : SetsCookie(h[i])}
        IN /\ \A k \in DOMAIN response.headers : ToLower(k) # STR_set_cookie
           /\ DOMAIN response.cookies = {CookieNameOf(h[i]) : i \in puts}
           /\ \A i \in puts :
                  (\A j \in puts : j > i => CookieNameOf(h[j]) # CookieNameOf(h[i])) =>
                      response.cookies[CookieNameOf(h[i])] = CookieValueOf(h[i])

\* "Set-Cookie: s=w" and "set-cookie: s=v; Path=/" were parsed in this order:
\* the attributes were dropped and no header was stored
C8_Witness ==
    /\ pc = "RecvRet"
    /\ HeadLines(response.raw) = <<L_200, L_Sw, L_sv>>
    /\ response.cookies = (<<115>> :> <<118>>)
    /\ response.headers = EmptyMap

\* ------------------------------------------------------------------------
\* C9: when the parsed response has a content-length header of value L, the
\* body ParseResponse produced has at most L bytes.
C9_BodyBoundedByContentLength ==
    (pc = "RecvRet" /\ STR_content_length \in DOMAIN response.headers) =>
        Len(response.data) <= Atoi(response.headers[STR_content_length])

\* ------------------------------------------------------------------------
\* C10: when the raw response has a blank line and no content-length header,
\* the body ParseResponse produced is exactly the bytes after the blank line.
C10_BodyIsRestWithoutContentLength ==
    (/\ pc = "RecvRet"
     /\ BlankPos(response.raw) # 0
     /\ \A i \in 2..Len(HeadLines(response.raw)) :
            ~(Find(HeadLines(response.raw)[i], 58) # 0
              /\ IsContentLength(HeadLines(response.raw)[i]))) =>
        response.data = BodyBytes(response.raw)

\* ------------------------------------------------------------------------
\* C11: ParseResponse, once invoked, never leaves by an exception, and when it
\* has returned its return value is OK.
C11_ParseAlwaysReturnsOK ==
    /\ pc # "Thrown"
    /\ pc = "RecvRet" => err = OK

\* ------------------------------------------------------------------------
\* C12: the first line of FormatRequest's output is the method, a space, the
\* path followed by the query string, a space and HTTP/1.1; the query string is
\* empty when there are no query parameters and otherwise is '?' followed by
\* one 'key=value&' per parameter, in ascending key order, the last pair
\* followed by '&' too; parameters a=1, b=2 give '?a=1&b=2&'.
PairKey(p) == Prefix(p, Find(p, 61) - 1)

C12_RequestLine ==
    pc = "Formatted" =>
        LET first == Split(request, CRLF)[1]
            toks == Split(first, <<32>>)
            qp == args.query_params
            q == Suffix(toks[2], Len(args.path) + 1)
            pairs == Split(Tail(q), <<38>>)
        IN /\ Len(toks) = 3
           /\ toks[1] = args.method
           /\ toks[3] = HTTP_VERSION
           /\ Prefix(toks[2], Len(args.path)) = args.path
           /\ DOMAIN qp = {} => q = <<>>
           /\ DOMAIN qp # {} =>
                  /\ q[1] = 63
                  /\ q[Len(q)] = 38
                  /\ Len(pairs) = Cardinality(DOMAIN qp) + 1
                  /\ pairs[Len(pairs)] = <<>>
                  /\ \A i \in 1..(Len(pairs) - 1) :
                         \E k \in DOMAIN qp : pairs[i] = k \o <<61>> \o qp[k]
                  /\ \A i \in 1..(Len(pairs) - 2) :
                         StrLess(PairKey(pairs[i]), PairKey(pairs[i + 1]))
           /\ qp = (<<97>> :> <<49>> @@ <<98>> :> <<50>>) =>
                  q = <<63, 97, 61, 49, 38, 98, 61, 50, 38>>

\* parameters a=1, b=2 were formatted into "GET /p?a=1&b=2& HTTP/1.1"
C12_Witness ==
    /\ pc = "Formatted"
    /\ args.query_params = (<<97>> :> <<49>> @@ <<98>> :> <<50>>)
    /\ Split(request, CRLF)[1] =
           <<71, 69, 84, 32, 47, 112, 63, 97, 61, 49, 38, 98, 61, 50, 38, 32>>
           \o HTTP_VERSION

\* ------------------------------------------------------------------------
\* C13: ResolveHost returns HOST_ADDRINFO exactly when getaddrinfo failed;
\* otherwise it returns OK exactly when some candidate is IPv4/stream/TCP, and
\* the stored address is then the first such candidate of the list; otherwise
\* it returns HOST_NORESULT; whenever it does not return OK the stored address
\* is as it was before the call; it returns no other code.
C13_ResolveOutcome ==
    resolveRet # "none" =>
        LET l == candidates.result
            usable == {i \in 1..Len(l) :
                          /\ l[i].ai_family = AF_INET
                          /\ l[i].ai_socktype = SOCK_STREAM
                          /\ l[i].ai_protocol = IPPROTO_TCP}
        IN /\ resolveRet \in {OK, HOST_ADDRINFO, HOST_NORESULT}
           /\ resolveRet = HOST_ADDRINFO <=> candidates.ret # 0
           /\ candidates.ret = 0 => (resolveRet = OK <=> usable # {})
           /\ resolveRet = OK =>
                  \E i \in usable :
                      /\ \A j \in usable : i <= j
                      /\ _address = l[i].ai_addr
           /\ resolveRet # OK => _address = addrBefore

\* ResolveHost stored the first of two usable candidates over an address
\* stored by an earlier call
C13_Witness ==
    /\ resolveRet = OK
    /\ candidates.ret = 0
    /\ Len(candidates.result) = 2
    /\ candidates.result[1].ai_addr = 2
    /\ candidates.result[2].ai_addr = 1
    /\ addrBefore = 1
    /\ _address = 2

\* ------------------------------------------------------------------------
\* C14: every address a Request hands to connect() was stored by an earlier
\* successful ResolveHost, and a Request made while no address is stored exits
\* with a resolution error (HOST_ADDRINFO or HOST_NORESULT).
C14_ConnectUsesResolvedAddress ==
    /\ connectAddr # NoConnect => connectAddr # ZeroAddress
    /\ (pc = "Done" /\ ncalls > 0 /\ _address = ZeroAddress) =>
           result \in {HOST_ADDRINFO, HOST_NORESULT}

\* ------------------------------------------------------------------------
\* C15: in Send the remaining count is never negative and the offset never
\* passes the end of the request, and Send eventually returns: OK with every
\* byte of the request accepted, or SOCKET_SEND after a failed write.
C15_SendTerminates ==
    /\ [](remaining_bytes >= 0 /\ buf_idx <= Len(request))
    /\ <>(/\ pc = "SendRet"
          /\ \/ err = OK /\ wire = request
             \/ err = SOCKET_SEND /\ envFail = "send")

\* ------------------------------------------------------------------------
\* C16: while Receive is in its read loop every read so far returned exactly
\* 255 bytes; when it has gone on to parse, the last read returned fewer than
\* 255 bytes and every read before it exactly 255; when a read failed Receive
\* returns SOCKET_RECV with nothing parsed; and when the peer's whole response
\* of len bytes was there to be read and nothing came after it, Receive made
\* exactly floor(len / 255) + 1 reads.
RECURSIVE TotalLen(_)
TotalLen(cs) == IF cs = <<>> THEN 0 ELSE Len(cs[1]) + TotalLen(Tail(cs))

C16_ReadUntilShort ==
    /\ pc = "Recv" =>
           /\ nreads = Len(chunks)
           /\ \A i \in 1..Len(chunks) : Len(chunks[i]) = 255
    /\ (pc = "Parse" \/ (pc = "RecvRet" /\ err = OK)) =>
           /\ nreads = Len(chunks)
           /\ chunks # <<>>
           /\ Len(chunks[Len(chunks)]) < 255
           /\ \A i \in 1..(Len(chunks) - 1) : Len(chunks[i]) = 255
           /\ peer = <<>> => nreads = (TotalLen(chunks) \div 255) + 1
    /\ (pc = "RecvRet" /\ err # OK) =>
           /\ err = SOCKET_RECV
           /\ nreads = Len(chunks) + 1
           /\ \A i \in 1..Len(chunks) : Len(chunks[i]) = 255
           /\ lines = <<>> /\ idx = 1 /\ state = STATUS
           /\ response.headers = EmptyMap /\ response.data = <<>>

\* a response of exactly two buffers was read in three reads, the last one
\* returning no bytes, and then parsed
C16_Witness ==
    /\ pc = "RecvRet"
    /\ err = OK
    /\ nreads = 3
    /\ TotalLen(chunks) = 510
    /\ chunks[3] = <<>>
    /\ peer = <<>>
    /\ Len(response.data) = 491

\* ------------------------------------------------------------------------
\* C17: when Receive hands the buffer to the parser, the raw buffer is the
\* concatenation, in order, of the chunks the reads of this call returned, so
\* its length is the sum of the byte counts the reads returned.
RECURSIVE Concat(_)
Concat(cs) == IF cs = <<>> THEN <<>> ELSE cs[1] \o Concat(Tail(cs))

C17_RawIsConcatenation ==
    pc = "Parse" =>
        /\ response.raw = Concat(chunks)
        /\ Len(response.raw) = TotalLen(chunks)

\* ------------------------------------------------------------------------
\* C18: the parser consumes exactly the first line in STATUS and is in HEADERS
\* after it whatever the line holds; a line consumed in HEADERS leads to BODY
\* exactly when it is empty and leaves the state HEADERS otherwise; a line
\* consumed in BODY leaves the state BODY and leaves the protocol version, the
\* status code, the status text, the headers and the cookies as they were;
\* no step moves the state backwards.
StateRank(s) == CASE s = STATUS -> 0 [] s = HEADERS -> 1 [] s = BODY -> 2

C18_StateMovesForward ==
    [][ /\ StateRank(state') >= StateRank(state)
        /\ (pc = "Parse" /\ idx' = idx + 1) =>
               /\ state = STATUS <=> idx = 1
               /\ state = STATUS => state' = HEADERS
               /\ state = HEADERS =>
                      state' = (IF lines[idx] = <<>> THEN BODY ELSE HEADERS)
               /\ state = BODY =>
                      /\ state' = BODY
                      /\ response'.protover = response.protover
                      /\ response'.code = response.code
                      /\ response'.status = response.status
                      /\ response'.headers = response.headers
                      /\ response'.cookies = response.cookies
      ]_vars

\* after "x: 1" and a blank line the lines "Set-Cookie: s=w" and "X: 2" were
\* consumed in BODY: no cookie was stored and the header x kept its value
C18_Witness ==
    /\ pc = "RecvRet"
    /\ state = BODY
    /\ lines = <<L_200, L_x1, <<>>, L_Sw, L_X2>>
    /\ response.cookies = EmptyMap
    /\ response.headers = (<<120>> :> <<49>>)
    /\ response.code = 200

\* ------------------------------------------------------------------------
\* C19: when a line is consumed in BODY it is appended to the body, and CRLF
\* is appended after it exactly when the body with that CRLF is still shorter
\* than the parsed content-length.
C19_SeparatorOnlyBelowLength ==
    [][ (pc = "Parse" /\ state = BODY /\ idx' = idx + 1) =>
            LET d == response.data \o lines[idx]
            IN response'.data =
                   (IF Len(d) + 2 < content_length THEN d \o CRLF ELSE d)
      ]_vars

\* ------------------------------------------------------------------------
\* C20: FormatRequest's output ends with the body; what precedes the body is,
\* line by line: the request line; one 'name: value' line per merged header,
\* in ascending name order; one line 'cookie: ' with 'name=value;' per merged
\* cookie exactly when there are cookies; 'content-length: <body length>' and
\* 'content-type: <content type>' exactly when the body is non-empty; a blank
\* line.  Every line ends with CRLF.
HeadOf(req, data) == Prefix(req, Len(req) - Len(data))

C20_OutputLayout ==
    pc = "Formatted" =>
        LET data == args.data
            head == HeadOf(request, data)
            ls == Split(head, CRLF)
            nh == Cardinality(DOMAIN merged_headers)
            nc == IF DOMAIN merged_cookies # {} THEN 1 ELSE 0
            nd == IF data # <<>> THEN 2 ELSE 0
            ck == Split(Suffix(ls[1 + nh + 1], Len(STR_cookie_colon) + 1), <<59>>)
            clv == Suffix(ls[1 + nh + nc + 1], Len(STR_content_length_colon) + 1)
        IN /\ Len(request) >= Len(data)
           /\ Suffix(request, Len(head) + 1) = data
           /\ Len(ls) = 1 + nh + nc + nd + 2
           /\ ls[Len(ls) - 1] = <<>>
           /\ ls[Len(ls)] = <<>>
           /\ \A i \in 1..nh :
                  \E k \in DOMAIN merged_headers :
                      ls[1 + i] = k \o <<58, 32>> \o merged_headers[k]
           /\ \A i \in 1..(nh - 1) :
                  StrLess(Prefix(ls[1 + i], Find(ls[1 + i], 58) - 1),
                          Prefix(ls[2 + i], Find(ls[2 + i], 58) - 1))
           /\ nc = 1 =>
                  /\ Prefix(ls[1 + nh + 1], Len(STR_cookie_colon)) = STR_cookie_colon
                  /\ Len(ck) = Cardinality(DOMAIN merged_cookies) + 1
                  /\ ck[Len(ck)] = <<>>
                  /\ \A i \in 1..(Len(ck) - 1) :
                         \E k \in DOMAIN merged_cookies :
                             ck[i] = k \o <<61>> \o merged_cookies[k]
                  /\ \A i \in 1..(Len(ck) - 2) :
                         StrLess(PairKey(ck[i]), PairKey(ck[i + 1]))
           /\ nd = 2 =>
                  /\ Prefix(ls[1 + nh + nc + 1], Len(STR_content_length_colon))
                         = STR_content_length_colon
                  /\ clv # <<>>
                  /\ \A i \in 1..Len(clv) : IsDigit(clv[i])
                  /\ clv[1] # 48
                  /\ DigitsValue(clv) = Len(data)
                  /\ ls[1 + nh + nc + 2] = STR_content_type_colon \o args.content_type

\* a ten-byte body that holds a blank line was formatted after two headers
\* and two cookies
C20_Witness ==
    /\ pc = "Formatted"
    /\ args.data = D_crlf
    /\ Cardinality(DOMAIN merged_headers) = 2
    /\ Cardinality(DOMAIN merged_cookies) = 2
    /\ Suffix(request, Len(request) - 9) = D_crlf
    /\ FindSeq(request, STR_content_length_colon \o <<49, 48>> \o CRLF) # 0
====
